---- MODULE Spec2Model ----
(***************************************************************************)
(* Model of lineageos_info.py: generate_csv reads a directory of device    *)
(* descriptor files, normalises each into a Device, writes one CSV file    *)
(* per LineageOS version and splices a "top 10" block into the README.     *)
(*                                                                         *)
(* Text is modelled as a sequence of characters.  A character is a one-    *)
(* character string, or an atom: a longer string standing for a run of    *)
(* characters that holds no "=", no whitespace at either end and no line   *)
(* break.  The screen field of a descriptor is left out: nothing below     *)
(* reads it.                                                               *)
(***************************************************************************)
EXTENDS Integers, Sequences, FiniteSets, TLC

VARIABLES
    wiki_dir,           \* input: the descriptor files of wiki_devices_path, in iterdir order
    readme,             \* the text of the file at readme_path
    pc,                 \* position inside generate_csv
    devices,            \* list of loaded Device objects
    wiki_commit_dates,  \* list of commit dates, one per file read
    files,              \* MultiCsvFile.files: versions of the opened files, in open order
    csv_generators,     \* MultiCsvFile.csv_generators: versions that have a CsvGenerator
    disk,               \* per version: what has been written to the CSV file
    handles,            \* per version: the file object this run opened, and its close() calls
    queue,              \* the part of sorted(devices) the for loop has still to visit
    pend,               \* versions of the current device still to be written
    exc,                \* the exception that is propagating ("" when none)
    readme_top10,       \* the lines generate_readme_top10 returned
    runs                \* completed invocations of generate_csv

vars == <<wiki_dir, readme, pc, devices, wiki_commit_dates, files, csv_generators,
          disk, handles, queue, pend, exc, readme_top10, runs>>

----------------------------------------------------------------------------
(* Bounds of the model *)

MaxFiles == 2
MaxTopFiles == 11
MaxBatteryList == 2
MaxReadmeLines == 3
MaxRuns == 2

----------------------------------------------------------------------------
(* Characters and strings *)

\* Code point of a character, the key of Python's str comparison.
Ord(c) ==
    CASE c = " " -> 32
      [] c = "A" -> 65
      [] c = "B" -> 66
      [] c = "a" -> 97
      [] c = "b" -> 98
      [] c = "-" -> 45
      [] c = "0" -> 48
      [] c = "1" -> 49
      [] c = "2" -> 50
      [] c = "9" -> 57

Upper(c) == CASE c = "a" -> "A" [] c = "b" -> "B" [] OTHER -> c

Lower(c) == CASE c = "A" -> "a" [] c = "B" -> "b" [] OTHER -> c

\* str.capitalize(): first character upper case, the rest lower case.
Capitalize(s) ==
    [i \in 1..Len(s) |-> IF i = 1 THEN Upper(s[i]) ELSE Lower(s[i])]

\* s < t for Python strings: lexicographic by code point.
RECURSIVE StrLess(_, _)
StrLess(s, t) ==
    IF t = <<>> THEN FALSE
    ELSE IF s = <<>> THEN TRUE
    ELSE IF Ord(Head(s)) # Ord(Head(t)) THEN Ord(Head(s)) < Ord(Head(t))
    ELSE StrLess(Tail(s), Tail(t))

\* True when needle occurs in hay as a contiguous run (Python's "in" on str).
Contains(hay, needle) ==
    \E i \in 0..(Len(hay) - Len(needle)) :
        \A k \in 1..Len(needle) : hay[i + k] = needle[k]

RECURSIVE Flatten(_)
Flatten(ss) == IF ss = <<>> THEN <<>> ELSE Head(ss) \o Flatten(Tail(ss))

----------------------------------------------------------------------------
(* Program constants *)

LINEAGE_OS_VERSIONS == {16, 17}

README_TOP10_HEADLINE == <<"=", "=", "=", " ", "top", " ", "10", " ", "devices">>

TOP_N == 10

WIKI_LINK_PREFIX == "https://wiki.lineageos.org/devices/"

----------------------------------------------------------------------------
(* Python values that a YAML document holds *)

PyNone == [none |-> TRUE]
PyBool(b) == [bool |-> b]
PyInt(n) == [int |-> n]
PyFloat(tenths) == [float |-> tenths] \* a float, kept as its number of tenths
PyStr(s) == [str |-> s]
PyDict(items) == [dict |-> items]     \* items: sequence of <<key, value>>
PyList(elems) == [list |-> elems]

IsKind(v, k) == k \in DOMAIN v

\* repr(): the text Python prints for a value, as characters and atoms.
RECURSIVE Repr(_)
Repr(v) ==
    IF IsKind(v, "none") THEN <<"None">>
    ELSE IF IsKind(v, "bool") THEN (IF v.bool THEN <<"True">> ELSE <<"False">>)
    ELSE IF IsKind(v, "int") THEN <<ToString(v.int)>>
    ELSE IF IsKind(v, "float") THEN
        <<ToString(v.float \div 10), ".", ToString(v.float % 10)>>
    ELSE IF IsKind(v, "str") THEN <<"'", v.str, "'">>
    ELSE IF IsKind(v, "dict") THEN
        <<"{">> \o
        Flatten([i \in 1..Len(v.dict) |->
                    (IF i = 1 THEN <<>> ELSE <<",", " ">>) \o
                    <<"'", v.dict[i][1], "'", ":", " ">> \o Repr(v.dict[i][2])]) \o
        <<"}">>
    ELSE
        <<"[">> \o
        Flatten([i \in 1..Len(v.list) |->
                    (IF i = 1 THEN <<>> ELSE <<",", " ">>) \o Repr(v.list[i])]) \o
        <<"]">>

----------------------------------------------------------------------------
(* Device *)

REQUIRED_AT_LOAD == {"vendor_short", "name", "maintainers", "versions", "codename"}

\* int(ver) of line 154 raises ValueError for a string that is no number.
IntRaises(ver) == IsKind(ver, "str")

\* int(ver): an int is itself, a float is truncated.
ToInt(ver) == IF IsKind(ver, "int") THEN ver.int ELSE ver.float \div 10

\* The exception load_lineageos_wiki_data raises on data, "" when it returns.
LoadRaises(data) ==
    IF REQUIRED_AT_LOAD \cap data.missing # {} THEN "KeyError"
    ELSE IF \E i \in 1..Len(data.versions) : IntRaises(data.versions[i]) THEN "ValueError"
    ELSE ""

\* data.get('battery'): None when the key is absent.
GetBattery(data) == IF "battery" \in data.missing THEN PyNone ELSE data.battery

\* As RemovableBattery, but a battery without either text is passed on as it
\* is, which is None for a descriptor without the key.
RemovableBattery_Passed(data) ==
    LET battery == Repr(GetBattery(data)) IN
    IF Contains(battery, <<"'", "removable", "'", ":", " ", "True">>) THEN PyBool(TRUE)
    ELSE IF Contains(battery, <<"'", "removable", "'", ":", " ", "False">>) THEN PyBool(FALSE)
    ELSE GetBattery(data)

\* Lines 167-173: the battery's repr is searched for the two texts.
RemovableBattery(data) ==
    LET battery == Repr(GetBattery(data)) IN
    IF Contains(battery, <<"'", "removable", "'", ":", " ", "True">>) THEN PyBool(TRUE)
    ELSE IF Contains(battery, <<"'", "removable", "'", ":", " ", "False">>) THEN PyBool(FALSE)
    ELSE PyStr("???")

ShortName(data) == Capitalize(data.vendor_short \o <<" ">> \o data.name)

VersionSet(data) == {ToInt(data.versions[i]) : i \in 1..Len(data.versions)}

\* As FilteredVersions, but without the intersection.
FilteredVersions_All(data, lineageos_versions) == lineageos_versions

\* Line 155
FilteredVersions(data, lineageos_versions) == VersionSet(data) \cap lineageos_versions

\* Device(...) followed by load_lineageos_wiki_data(data), for data that loads.
load_lineageos_wiki_data(data, lineageos_versions, wiki_commit_date) ==
    [ short_name |-> ShortName(data),
      wiki_commit_date |-> wiki_commit_date,
      filtered_lineageos_version |-> FilteredVersions(data, lineageos_versions),
      lineageos_wiki_link |-> <<WIKI_LINK_PREFIX, data.codename>>,
      maintainer_count |-> Len(data.maintainers),
      versions |-> VersionSet(data),
      removable_battery |-> RemovableBattery(data),
      data |-> data ]

\* As Device_lt, but fewer maintainers first.
Device_lt_Ascending(self, other) ==
    IF self.maintainer_count # other.maintainer_count
    THEN self.maintainer_count < other.maintainer_count
    ELSE StrLess(self.short_name, other.short_name)

\* Device.__lt__
Device_lt(self, other) ==
    IF self.maintainer_count # other.maintainer_count
    THEN self.maintainer_count > other.maintainer_count
    ELSE StrLess(self.short_name, other.short_name)

\* As skip_device, but without the rule on maintainers.
skip_device_NoMaintainerRule(self) ==
    IF self.filtered_lineageos_version = {} THEN TRUE
    ELSE IF self.data.ram \in {"1 GB", "2 GB"} THEN TRUE
    ELSE IF self.data.storage \in {"8 GB", "16 GB"} THEN TRUE
    ELSE FALSE

\* Device.skip_device when it returns: TRUE to skip, FALSE to keep.
skip_device(self) ==
    IF self.maintainer_count < 1 THEN TRUE
    ELSE IF self.filtered_lineageos_version = {} THEN TRUE
    ELSE IF self.data.ram \in {"1 GB", "2 GB"} THEN TRUE
    ELSE IF self.data.storage \in {"8 GB", "16 GB"} THEN TRUE
    ELSE FALSE

\* Device.skip_device raises KeyError when it reaches a key the data lacks.
SkipRaises(self) ==
    /\ self.maintainer_count >= 1
    /\ self.filtered_lineageos_version # {}
    /\ IF "ram" \in self.data.missing THEN TRUE
       ELSE /\ self.data.ram \notin {"1 GB", "2 GB"}
            /\ "storage" \in self.data.missing

\* sorted(devs), as the list of positions in devs: Python's sort is stable and
\* compares with __lt__ only; each element goes in front of the first element it
\* is less than.
RECURSIVE InsertSorted(_, _, _)
InsertSorted(devs, out, i) ==
    IF out = <<>> THEN <<i>>
    ELSE IF Device_lt(devs[i], devs[Head(out)]) THEN <<i>> \o out
    ELSE <<Head(out)>> \o InsertSorted(devs, Tail(out), i)

RECURSIVE SortedUpTo(_, _)
SortedUpTo(devs, n) ==
    IF n = 0 THEN <<>> ELSE InsertSorted(devs, SortedUpTo(devs, n - 1), n)

Sorted(devs) == SortedUpTo(devs, Len(devs))

----------------------------------------------------------------------------
(* Text files and the README patch *)

NL == "\n"

IsSpace(c) == c \in {" ", NL, "\t"}

\* str.rstrip(): drop the whitespace at the end.
RECURSIVE RStrip(_)
RStrip(s) ==
    IF s # <<>> /\ IsSpace(s[Len(s)]) THEN RStrip(SubSeq(s, 1, Len(s) - 1)) ELSE s

StartsWith(s, prefix) ==
    /\ Len(s) >= Len(prefix)
    /\ SubSeq(s, 1, Len(prefix)) = prefix

\* Iterating a text file: each line ends after its line break, which it keeps;
\* the last line has none when the text does not end with one.
RECURSIVE ReadLinesFrom(_, _)
ReadLinesFrom(text, cur) ==
    IF text = <<>> THEN (IF cur = <<>> THEN <<>> ELSE <<cur>>)
    ELSE IF Head(text) = NL THEN <<Append(cur, NL)>> \o ReadLinesFrom(Tail(text), <<>>)
    ELSE ReadLinesFrom(Tail(text), Append(cur, Head(text)))

ReadLines(text) == ReadLinesFrom(text, <<>>)

\* '\n'.join(lines)
RECURSIVE JoinLines(_)
JoinLines(lines) ==
    IF lines = <<>> THEN <<>>
    ELSE IF Len(lines) = 1 THEN Head(lines)
    ELSE Head(lines) \o <<NL>> \o JoinLines(Tail(lines))

\* The loop of lines 283-295 over the remaining raw lines; st holds new_readme,
\* top10_found and in_top10.
RECURSIVE PatchLoop(_, _, _)
PatchLoop(raw, top10, st) ==
    IF raw = <<>> THEN st
    ELSE
        LET line == RStrip(Head(raw)) IN
        IF ~st.in_top10 THEN
            IF line = README_TOP10_HEADLINE THEN
                PatchLoop(Tail(raw), top10,
                    [ new_readme |-> Append(st.new_readme, line) \o <<(<<>>)>> \o top10 \o <<(<<>>)>>,
                      top10_found |-> TRUE,
                      in_top10 |-> TRUE ])
            ELSE
                PatchLoop(Tail(raw), top10,
                    [st EXCEPT !.new_readme = Append(st.new_readme, line)])
        ELSE IF StartsWith(line, <<"=", "=">>) THEN
            PatchLoop(Tail(raw), top10,
                [st EXCEPT !.new_readme = Append(st.new_readme, line), !.in_top10 = FALSE])
        ELSE PatchLoop(Tail(raw), top10, st)

\* Lines 279-298: the patched text and whether the headline was found.
PatchReadme(text, top10) ==
    LET st == PatchLoop(ReadLines(text), top10,
                        [new_readme |-> <<>>, top10_found |-> FALSE, in_top10 |-> FALSE])
    IN [top10_found |-> st.top10_found, new_readme |-> JoinLines(st.new_readme)]

----------------------------------------------------------------------------
(* generate_readme_top10 *)

TODAY == <<"<today>">>

Take(s, n) == SubSeq(s, 1, IF Len(s) < n THEN Len(s) ELSE n)

DeviceLine(device) ==
    <<"* [[">> \o device.lineageos_wiki_link \o <<"|">> \o device.short_name
        \o <<"]] (", ToString(device.maintainer_count), " ", "maintainers)">>

\* max() of a non-empty list of strings
RECURSIVE MaxStr(_)
MaxStr(ss) ==
    IF Len(ss) = 1 THEN Head(ss)
    ELSE LET m == MaxStr(Tail(ss)) IN IF StrLess(Head(ss), m) THEN m ELSE Head(ss)

\* As Top10Devices, but of the devices that skip_device keeps.
Top10Devices_Kept(devs) ==
    LET Kept(i) == ~skip_device(devs[i]) IN Take(SelectSeq(Sorted(devs), Kept), TOP_N)

\* The devices the summary lists, as positions in devs: sorted(devices)[:10]
Top10Devices(devs) == Take(Sorted(devs), TOP_N)

generate_readme_top10(dates, devs) ==
    LET top == Top10Devices(devs) IN
    [i \in 1..Len(top) |-> DeviceLine(devs[top[i]])]
        \o << <<>>,
              <<"Last LineageOS wiki page update:", " ">> \o MaxStr(dates),
              <<"Generated:", " ">> \o TODAY >>

----------------------------------------------------------------------------
(* generate_csv *)

NoHandle == [opened |-> FALSE, closed |-> FALSE, closes |-> 0]

EmptyFile == [header |-> FALSE, rows |-> <<>>]

\* The state at the call of generate_csv on a checkout whose CSV files do not
\* exist yet.
Start(dir, text) ==
    /\ wiki_dir = dir
    /\ readme = text
    /\ pc = "load"
    /\ devices = <<>>
    /\ wiki_commit_dates = <<>>
    /\ files = <<>>
    /\ csv_generators = {}
    /\ disk = [v \in LINEAGE_OS_VERSIONS |-> EmptyFile]
    /\ handles = [v \in LINEAGE_OS_VERSIONS |-> NoHandle]
    /\ queue = <<>>
    /\ pend = {}
    /\ exc = ""
    /\ readme_top10 = <<>>
    /\ runs = 0

\* The file the for loop of line 244 is at.
Item == wiki_dir[Len(wiki_commit_dates) + 1]

\* The exception lines 245-253 raise on an item, "" when the device loads.
ItemRaises(item) ==
    IF ~item.git_ok THEN "CalledProcessError" ELSE LoadRaises(item.data)

\* Lines 244-255, one file that loads.
LoadDevice ==
    /\ pc = "load"
    /\ Len(wiki_commit_dates) < Len(wiki_dir)
    /\ ItemRaises(Item) = ""
    /\ wiki_commit_dates' = Append(wiki_commit_dates, Item.commit_date)
    /\ devices' = Append(devices,
            load_lineageos_wiki_data(Item.data, LINEAGE_OS_VERSIONS, Item.commit_date))
    /\ UNCHANGED <<wiki_dir, readme, pc, files, csv_generators, disk, handles, queue,
                   pend, exc, readme_top10, runs>>

\* Lines 244-255, one file whose commit date query or load raises: nothing
\* catches the exception, generate_csv ends with it.
LoadFault ==
    /\ pc = "load"
    /\ Len(wiki_commit_dates) < Len(wiki_dir)
    /\ ItemRaises(Item) # ""
    /\ exc' = ItemRaises(Item)
    /\ pc' = "aborted"
    /\ wiki_commit_dates' =
          IF Item.git_ok THEN Append(wiki_commit_dates, Item.commit_date)
          ELSE wiki_commit_dates
    /\ UNCHANGED <<wiki_dir, readme, devices, files, csv_generators, disk, handles,
                   queue, pend, readme_top10, runs>>

\* The directory is exhausted; MultiCsvFile.__enter__ starts (lines 112-113).
EnterBegin ==
    /\ pc = "load"
    /\ Len(wiki_commit_dates) = Len(wiki_dir)
    /\ pc' = "enter"
    /\ files' = <<>>
    /\ csv_generators' = {}
    /\ UNCHANGED <<wiki_dir, readme, devices, wiki_commit_dates, disk, handles, queue,
                   pend, exc, readme_top10, runs>>

Opened == {files[i] : i \in 1..Len(files)}

\* Lines 115-119 for one version: the file is opened for writing (and so
\* emptied), kept in self.files, and its CsvGenerator writes the header.
\* The versions are a set, visited in no fixed order.
EnterOpen(version) ==
    /\ pc = "enter"
    /\ version \in LINEAGE_OS_VERSIONS \ Opened
    /\ files' = Append(files, version)
    /\ handles' = [handles EXCEPT ![version] = [opened |-> TRUE, closed |-> FALSE, closes |-> 0]]
    /\ disk' = [disk EXCEPT ![version] = [header |-> TRUE, rows |-> <<>>]]
    /\ csv_generators' = csv_generators \cup {version}
    /\ UNCHANGED <<wiki_dir, readme, pc, devices, wiki_commit_dates, queue, pend, exc,
                   readme_top10, runs>>

\* Line 117 raises (the path cannot be written): __enter__ ends with the
\* exception, and __exit__ is not called for a failed __enter__.
EnterOpenFault(version) ==
    /\ pc = "enter"
    /\ version \in LINEAGE_OS_VERSIONS \ Opened
    /\ exc' = "OSError"
    /\ pc' = "aborted"
    /\ UNCHANGED <<wiki_dir, readme, devices, wiki_commit_dates, files, csv_generators,
                   disk, handles, queue, pend, readme_top10, runs>>

\* Line 119 raises while the header is written: the file was opened and is in
\* self.files already.
EnterHeaderFault(version) ==
    /\ pc = "enter"
    /\ version \in LINEAGE_OS_VERSIONS \ Opened
    /\ files' = Append(files, version)
    /\ handles' = [handles EXCEPT ![version] = [opened |-> TRUE, closed |-> FALSE, closes |-> 0]]
    /\ disk' = [disk EXCEPT ![version] = EmptyFile]
    /\ exc' = "OSError"
    /\ pc' = "aborted"
    /\ UNCHANGED <<wiki_dir, readme, devices, wiki_commit_dates, csv_generators, queue,
                   pend, readme_top10, runs>>

\* __enter__ returns; line 263 sorts the devices.
EnterDone ==
    /\ pc = "enter"
    /\ LINEAGE_OS_VERSIONS \ Opened = {}
    /\ pc' = "rows"
    /\ queue' = Sorted(devices)
    /\ pend' = {}
    /\ UNCHANGED <<wiki_dir, readme, devices, wiki_commit_dates, files, csv_generators,
                   disk, handles, exc, readme_top10, runs>>

\* Lines 265-266: the next device is skipped.
VisitSkip ==
    /\ pc = "rows" /\ pend = {} /\ queue # <<>>
    /\ ~SkipRaises(devices[Head(queue)])
    /\ skip_device(devices[Head(queue)])
    /\ queue' = Tail(queue)
    /\ UNCHANGED <<wiki_dir, readme, pc, devices, wiki_commit_dates, files,
                   csv_generators, disk, handles, pend, exc, readme_top10, runs>>

\* Lines 265-268: the next device is kept; its versions are to be written.
VisitKeep ==
    /\ pc = "rows" /\ pend = {} /\ queue # <<>>
    /\ ~SkipRaises(devices[Head(queue)])
    /\ ~skip_device(devices[Head(queue)])
    /\ pend' = devices[Head(queue)].filtered_lineageos_version
    /\ UNCHANGED <<wiki_dir, readme, pc, devices, wiki_commit_dates, files,
                   csv_generators, disk, handles, queue, exc, readme_top10, runs>>

\* Line 265 raises inside the with block: control goes to __exit__.
VisitFault ==
    /\ pc = "rows" /\ pend = {} /\ queue # <<>>
    /\ SkipRaises(devices[Head(queue)])
    /\ exc' = "KeyError"
    /\ pc' = "exit"
    /\ UNCHANGED <<wiki_dir, readme, devices, wiki_commit_dates, files, csv_generators,
                   disk, handles, queue, pend, readme_top10, runs>>

\* Line 269 for one version of the current device: one row is written.
AddRow(version) ==
    /\ pc = "rows"
    /\ version \in pend
    /\ disk' = [disk EXCEPT ![version].rows = Append(@, Head(queue))]
    /\ pend' = pend \ {version}
    /\ queue' = IF pend' = {} THEN Tail(queue) ELSE queue
    /\ UNCHANGED <<wiki_dir, readme, pc, devices, wiki_commit_dates, files,
                   csv_generators, handles, exc, readme_top10, runs>>

\* Line 269 raises while a row is written: control goes to __exit__.
AddRowFault(version) ==
    /\ pc = "rows"
    /\ version \in pend
    /\ exc' = "OSError"
    /\ pc' = "exit"
    /\ UNCHANGED <<wiki_dir, readme, devices, wiki_commit_dates, files, csv_generators,
                   disk, handles, queue, pend, readme_top10, runs>>

\* The for loop of line 263 ends.
RowsDone ==
    /\ pc = "rows" /\ pend = {} /\ queue = <<>>
    /\ pc' = "exit"
    /\ UNCHANGED <<wiki_dir, readme, devices, wiki_commit_dates, files, csv_generators,
                   disk, handles, queue, pend, exc, readme_top10, runs>>

\* MultiCsvFile.__exit__: every file of self.files is closed; __exit__ returns
\* None, so an exception of the with block goes on.
Exit ==
    /\ pc = "exit"
    /\ handles' = [v \in LINEAGE_OS_VERSIONS |->
                     IF v \in Opened
                     THEN [handles[v] EXCEPT !.closed = TRUE, !.closes = @ + 1]
                     ELSE handles[v]]
    /\ pc' = IF exc = "" THEN "top10" ELSE "aborted"
    /\ UNCHANGED <<wiki_dir, readme, devices, wiki_commit_dates, files, csv_generators,
                   disk, queue, pend, exc, readme_top10, runs>>

\* Line 274.
Top10 ==
    /\ pc = "top10"
    /\ wiki_commit_dates # <<>>
    /\ readme_top10' = generate_readme_top10(wiki_commit_dates, devices)
    /\ pc' = "readme"
    /\ UNCHANGED <<wiki_dir, readme, devices, wiki_commit_dates, files, csv_generators,
                   disk, handles, queue, pend, exc, runs>>

\* Line 218 raises ValueError: max() of no commit dates, the directory was empty.
Top10Fault ==
    /\ pc = "top10"
    /\ wiki_commit_dates = <<>>
    /\ exc' = "ValueError"
    /\ pc' = "aborted"
    /\ UNCHANGED <<wiki_dir, readme, devices, wiki_commit_dates, files, csv_generators,
                   disk, handles, queue, pend, readme_top10, runs>>

\* Lines 279-301 when the headline was found: the README is written.
UpdateReadme ==
    /\ pc = "readme"
    /\ PatchReadme(readme, readme_top10).top10_found
    /\ readme' = PatchReadme(readme, readme_top10).new_readme
    /\ pc' = "done"
    /\ runs' = runs + 1
    /\ UNCHANGED <<wiki_dir, devices, wiki_commit_dates, files, csv_generators, disk,
                   handles, queue, pend, exc, readme_top10>>

\* Line 297: the assert fails, the README is not opened for writing.
UpdateReadmeFault ==
    /\ pc = "readme"
    /\ ~PatchReadme(readme, readme_top10).top10_found
    /\ exc' = "AssertionError"
    /\ pc' = "aborted"
    /\ UNCHANGED <<wiki_dir, readme, devices, wiki_commit_dates, files, csv_generators,
                   disk, handles, queue, pend, readme_top10, runs>>

\* The script is run again on the same checkout: the README and the CSV files
\* are as the last run left them.
RunAgain ==
    /\ pc = "done"
    /\ runs < MaxRuns
    /\ pc' = "load"
    /\ devices' = <<>>
    /\ wiki_commit_dates' = <<>>
    /\ files' = <<>>
    /\ csv_generators' = {}
    /\ handles' = [v \in LINEAGE_OS_VERSIONS |-> NoHandle]
    /\ queue' = <<>>
    /\ pend' = {}
    /\ readme_top10' = <<>>
    /\ UNCHANGED <<wiki_dir, readme, disk, exc, runs>>

Next ==
    \/ LoadDevice
    \/ LoadFault
    \/ EnterBegin
    \/ \E version \in LINEAGE_OS_VERSIONS : EnterOpen(version)
    \/ \E version \in LINEAGE_OS_VERSIONS : EnterOpenFault(version)
    \/ \E version \in LINEAGE_OS_VERSIONS : EnterHeaderFault(version)
    \/ EnterDone
    \/ VisitSkip
    \/ VisitKeep
    \/ VisitFault
    \/ \E version \in LINEAGE_OS_VERSIONS : AddRow(version)
    \/ \E version \in LINEAGE_OS_VERSIONS : AddRowFault(version)
    \/ RowsDone
    \/ Exit
    \/ Top10
    \/ Top10Fault
    \/ UpdateReadme
    \/ UpdateReadmeFault

NextAgain == Next \/ RunAgain

----------------------------------------------------------------------------
(* Inputs: descriptor files, directories and README texts *)

SeqsUpTo(S, n) == UNION {[1..k -> S] : k \in 0..n}

DATE_1 == <<"2", "0", "1", "9", "-", "0", "1", "-", "0", "2">>
DATE_2 == <<"2", "0", "1", "9", "-", "0", "1", "-", "1", "0">>

\* A descriptor of vendor "a" without a battery key.
MkData(name, nmaint, versions, ram, storage) ==
    [ missing |-> {"battery"},
      vendor_short |-> <<"a">>,
      name |-> name,
      codename |-> IF name = <<"a">> THEN "alpha" ELSE "bravo",
      maintainers |-> [i \in 1..nmaint |-> "someone"],
      versions |-> versions,
      ram |-> ram,
      storage |-> storage,
      battery |-> PyNone ]

\* A descriptor file and the date git reports for it.
MkItem(data) ==
    [ git_ok |-> TRUE,
      commit_date |-> IF data.name = <<"a">> THEN DATE_1 ELSE DATE_2,
      data |-> data ]

Names == {<<"a">>, <<"B">>}

V_16_17 == <<PyInt(16), PyInt(17)>>
V_15_16 == <<PyFloat(151), PyInt(16), PyFloat(160)>>
V_15 == <<PyFloat(151)>>

Plain == MkData(<<"a">>, 2, V_16_17, "3 GB", "32 GB")

\* Files whose load raises, and one whose skip_device raises.
GitFails == [MkItem(Plain) EXCEPT !.git_ok = FALSE]
NoMaintainers == MkItem([Plain EXCEPT !.missing = @ \cup {"maintainers"}])
BadVersion == MkItem([Plain EXCEPT !.versions = <<PyInt(16), PyStr("x")>>])
NoRam == MkItem([Plain EXCEPT !.missing = @ \cup {"ram"}])

FaultyItems == {GitFails, NoMaintainers, BadVersion, NoRam}

\* Devices of every maintainer count and name that pass the other skip rules,
\* and well-maintained devices that each of the other rules rejects or that
\* match one version only.
WideItems ==
    {MkItem(MkData(n, c, V_16_17, "3 GB", "32 GB")) : n \in Names, c \in 0..2}
    \cup {MkItem(MkData(n, 2, V_15_16, "3 GB", "32 GB")) : n \in Names}
    \cup {MkItem(MkData(n, 2, V_15, "3 GB", "32 GB")) : n \in Names}
    \cup {MkItem(MkData(n, 2, V_16_17, "1 GB", "32 GB")) : n \in Names}
    \cup {MkItem(MkData(n, 2, V_16_17, "3 GB", "16 GB")) : n \in Names}
    \cup FaultyItems

\* Two kinds of device for long directories: a well-maintained one that
\* skip_device rejects and a kept one with fewer maintainers.
DeepItems ==
    { MkItem(MkData(<<"a">>, 2, V_16_17, "1 GB", "32 GB")),
      MkItem(MkData(<<"B">>, 1, <<PyInt(17)>>, "3 GB", "32 GB")) }

\* Shapes of the battery field.
CAPACITY == <<"capacity", PyInt(3000)>>
RemovableValues == {PyBool(TRUE), PyBool(FALSE), PyNone, PyStr("True")}
BatteryDicts ==
    {PyDict(<<>>), PyDict(<<CAPACITY>>)}
    \cup {PyDict(<<(<<"removable", v>>)>>) : v \in RemovableValues}
    \cup {PyDict(<<CAPACITY, <<"removable", v>> >>) : v \in RemovableValues}
    \cup {PyDict(<< <<"removable", v>>, CAPACITY>>) : v \in RemovableValues}
ListedDicts ==
    { PyDict(<<(<<"removable", PyBool(TRUE)>>)>>),
      PyDict(<<(<<"removable", PyBool(FALSE)>>)>>),
      PyDict(<<CAPACITY>>) }
BatteryValues ==
    {PyNone, PyStr("None")}
    \cup BatteryDicts
    \cup {PyList(l) : l \in SeqsUpTo(ListedDicts, MaxBatteryList)}

BatteryItems ==
    {MkItem([Plain EXCEPT !.missing = {}, !.battery = b]) : b \in BatteryValues}
    \cup {MkItem(Plain)}

\* README lines and texts.
ReadmeLines ==
    { README_TOP10_HEADLINE,
      README_TOP10_HEADLINE \o <<" ">>,
      <<"=", "=", " ", "next">>,
      <<"text">>,
      <<"text", " ">>,
      <<>> }

MkText(lines, final_newline) ==
    JoinLines(lines) \o (IF final_newline THEN <<NL>> ELSE <<>>)

ReadmeTexts ==
    {MkText(lines, nl) : lines \in SeqsUpTo(ReadmeLines, MaxReadmeLines), nl \in BOOLEAN}

GoodReadme ==
    MkText(<< <<"intro">>, README_TOP10_HEADLINE, <<"old">>, <<"=", "=", " ", "next">> >>, TRUE)

NoHeadlineReadme == MkText(<< <<"intro">> >>, TRUE)

\* Runs that every specification below includes: an empty directory, a file of
\* each faulty kind alone, a device without maintainers, and a README without
\* the headline.
CommonInputs ==
    { << <<>>, GoodReadme >>,
      << <<MkItem(Plain)>>, NoHeadlineReadme >>,
      << <<MkItem(MkData(<<"a">>, 0, V_16_17, "3 GB", "32 GB"))>>, GoodReadme >> }
    \cup {<< <<item>>, GoodReadme >> : item \in FaultyItems}

WideInputs ==
    {<<dir, GoodReadme>> : dir \in SeqsUpTo(WideItems, MaxFiles)} \cup CommonInputs

DeepInputs ==
    {<<dir, GoodReadme>> : dir \in SeqsUpTo(DeepItems, MaxTopFiles)} \cup CommonInputs

BatteryInputs ==
    {<< <<item>>, GoodReadme >> : item \in BatteryItems} \cup CommonInputs

ReadmeInputs ==
    {<< <<MkItem(Plain)>>, text >> : text \in ReadmeTexts} \cup CommonInputs

----------------------------------------------------------------------------
(* Specifications *)

Init == \E in \in WideInputs : Start(in[1], in[2])
Spec == Init /\ [][Next]_vars

InitTop10 == \E in \in DeepInputs : Start(in[1], in[2])
SpecTop10 == InitTop10 /\ [][Next]_vars

InitBattery == \E in \in BatteryInputs : Start(in[1], in[2])
SpecBattery == InitBattery /\ [][Next]_vars

InitReadme == \E in \in ReadmeInputs : Start(in[1], in[2])
SpecReadme == InitReadme /\ [][NextAgain]_vars

----------------------------------------------------------------------------
(* Properties *)

Min(a, b) == IF a < b THEN a ELSE b

Rows(v) == disk[v].rows

Occurrences(seq, x) == Cardinality({k \in 1..Len(seq) : seq[k] = x})

\* The with block of line 262 was left without an exception.
CsvWritten == pc \in {"top10", "readme", "done"}

ExcludedRam == {"1 GB", "2 GB"}
ExcludedStorage == {"8 GB", "16 GB"}

MatchedBuckets(device) == LINEAGE_OS_VERSIONS \cap device.versions

PassesSkipRules(device) ==
    /\ device.maintainer_count >= 1
    /\ MatchedBuckets(device) # {}
    /\ device.data.ram \notin ExcludedRam
    /\ device.data.storage \notin ExcludedStorage

\* C1: in every version's file, a row of a device with more maintainers comes
\* before a row of a device with fewer, and of two devices with the same count
\* the one with the smaller short_name comes first.
C1_RowsRanked ==
    \A v \in LINEAGE_OS_VERSIONS :
        \A i, j \in 1..Len(Rows(v)) :
            i < j =>
                LET A == devices[Rows(v)[i]]
                    B == devices[Rows(v)[j]]
                IN /\ A.maintainer_count >= B.maintainer_count
                   /\ A.maintainer_count = B.maintainer_count
                        => ~StrLess(B.short_name, A.short_name)

\* Two devices with the same count were read in the other order than they were
\* written, and raw names would order them as they were read ("B" < "a").
C1_Witness ==
    /\ pc = "done"
    /\ Len(devices) = 2
    /\ devices[1].maintainer_count = devices[2].maintainer_count
    /\ devices[1].data.name = <<"B">>
    /\ devices[2].data.name = <<"a">>
    /\ Rows(16) = <<2, 1>>

\* C2: once the CSV files are written, a device that passes the four skip
\* rules has exactly one row in the file of each version it shares with the
\* target versions and none in the other files; a device that shares no
\* version with the target versions has no row at all.
C2_FanOut ==
    CsvWritten =>
        \A i \in 1..Len(devices) : \A v \in LINEAGE_OS_VERSIONS :
            /\ PassesSkipRules(devices[i]) =>
                  Occurrences(Rows(v), i) =
                      (IF v \in MatchedBuckets(devices[i]) THEN 1 ELSE 0)
            /\ MatchedBuckets(devices[i]) = {} => Occurrences(Rows(v), i) = 0

\* A kept device that supports 15.1, 16 and 16.0 is in the file of 16 only,
\* beside one that supports no target version.
C2_Witness ==
    /\ pc = "done"
    /\ Len(devices) = 2
    /\ PassesSkipRules(devices[1])
    /\ devices[1].data.versions = V_15_16
    /\ Rows(16) = <<1>> /\ Rows(17) = <<>>
    /\ devices[2].data.versions = V_15

\* C3: no row of any file is of a device without maintainers.
C3_NoUnmaintainedRow ==
    \A v \in LINEAGE_OS_VERSIONS : \A k \in 1..Len(Rows(v)) :
        devices[Rows(v)[k]].maintainer_count # 0

\* A run ended that read a device without maintainers which the other three
\* rules accept.
C3_Witness ==
    /\ pc = "done"
    /\ \E i \in 1..Len(devices) :
          /\ devices[i].maintainer_count = 0
          /\ MatchedBuckets(devices[i]) = LINEAGE_OS_VERSIONS
          /\ devices[i].data.ram \notin ExcludedRam
          /\ devices[i].data.storage \notin ExcludedStorage

\* C4: removable_battery of every loaded device is True, False or '???'.
C4_BatteryTriState ==
    \A i \in 1..Len(devices) :
        devices[i].removable_battery \in {PyBool(TRUE), PyBool(FALSE), PyStr("???")}

\* A device whose battery is a list with a removable and a fixed battery.
C4_Witness ==
    /\ Len(devices) = 1
    /\ devices[1].data.battery =
          PyList(<< PyDict(<<(<<"removable", PyBool(FALSE)>>)>>),
                    PyDict(<<(<<"removable", PyBool(TRUE)>>)>>) >>)
    /\ devices[1].removable_battery = PyBool(TRUE)

IsPrefix(p, s) == Len(p) <= Len(s) /\ SubSeq(s, 1, Len(p)) = p

IsSuffix(p, s) == Len(p) <= Len(s) /\ SubSeq(s, Len(s) - Len(p) + 1, Len(s)) = p

\* A raw line without its line break.
Chomp(raw) == IF raw # <<>> /\ raw[Len(raw)] = NL THEN SubSeq(raw, 1, Len(raw) - 1) ELSE raw

\* The lines of text that are the headline, whitespace at the end aside, by
\* position; and those that are the headline to the character.
HeadlineAt(text) ==
    {i \in 1..Len(ReadLines(text)) : RStrip(ReadLines(text)[i]) = README_TOP10_HEADLINE}

ExactHeadlineAt(text) ==
    {i \in 1..Len(ReadLines(text)) : Chomp(ReadLines(text)[i]) = README_TOP10_HEADLINE}

HeadlineOnce(text) ==
    Cardinality(HeadlineAt(text)) = 1 /\ ExactHeadlineAt(text) = HeadlineAt(text)

\* The section delimiters after line i, by position.
DelimitersAfter(text, i) ==
    {j \in (i + 1)..Len(ReadLines(text)) : StartsWith(ReadLines(text)[j], <<"=", "=">>)}

SetMin(S) == CHOOSE x \in S : \A y \in S : x <= y

\* The text up to and with the headline line, and the text from the next
\* delimiter on (empty when there is none).
Before(text) ==
    Flatten(SubSeq(ReadLines(text), 1, SetMin(HeadlineAt(text))))

After(text) ==
    LET ds == DelimitersAfter(text, SetMin(HeadlineAt(text))) IN
    IF ds = {} THEN <<>>
    ELSE Flatten(SubSeq(ReadLines(text), SetMin(ds), Len(ReadLines(text))))

\* A step that writes the README.
WritesReadme == pc = "readme" /\ pc' = "done"

\* C5: a README with one headline line is written with the text up to and with
\* the headline line and the text from the next delimiter on as they were,
\* character by character.
C5_FramePreserved ==
    [][(WritesReadme /\ HeadlineOnce(readme)) =>
          /\ IsPrefix(Before(readme), readme')
          /\ IsSuffix(After(readme), readme')]_vars

\* C6: the README update of a second run with the same devices leaves the
\* README as the first run wrote it.
C6_Idempotent ==
    [][(WritesReadme /\ runs >= 1) => readme' = readme]_vars

\* C7: with no headline line or more than one, the update ends with an
\* exception and the README is as it was.
C7_FailsUnlessOnce ==
    [][(pc = "readme" /\ Cardinality(HeadlineAt(readme)) # 1) =>
          (pc' = "aborted" /\ readme' = readme)]_vars

\* C8: when generate_csv has ended, every file that was opened has been
\* closed exactly once.
C8_ClosedOnce ==
    pc \in {"done", "aborted"} =>
        \A v \in LINEAGE_OS_VERSIONS : handles[v].opened => handles[v].closes = 1

\* C9: generate_csv does not end with the exception of a descriptor file (a
\* failed commit date query, a missing key, a version that is no number).
C9_FileFaultTolerated ==
    ~(/\ pc = "aborted"
      /\ wiki_dir # <<>>
      /\ exc \in {"CalledProcessError", "KeyError", "ValueError"})

\* A ranks before B: more maintainers, or as many and a smaller short_name.
RanksBefore(A, B) ==
    \/ A.maintainer_count > B.maintainer_count
    \/ /\ A.maintainer_count = B.maintainer_count
       /\ StrLess(A.short_name, B.short_name)

NumBefore(i) == Cardinality({j \in 1..Len(devices) : RanksBefore(devices[j], devices[i])})

NumNotAfter(i) == Cardinality({j \in 1..Len(devices) : ~RanksBefore(devices[i], devices[j])})

\* C10: the summary starts with one line per device for the first
\* min(10, number of devices) places of the ranking of all loaded devices:
\* the line at place k is of a device that as many as k - 1 devices at most
\* rank before, no line is used more often than devices have it, and a blank
\* line and the two date lines follow.
C10_Top10OfAll ==
    pc \in {"readme", "done"} =>
        LET m == Min(TOP_N, Len(devices)) IN
        /\ Len(readme_top10) = m + 3
        /\ readme_top10[m + 1] = <<>>
        /\ \A k \in 1..m :
              /\ \E i \in 1..Len(devices) :
                    /\ readme_top10[k] = DeviceLine(devices[i])
                    /\ NumBefore(i) < k
                    /\ k <= NumNotAfter(i)
              /\ Occurrences(SubSeq(readme_top10, 1, m), readme_top10[k])
                    <= Cardinality({i \in 1..Len(devices) :
                                        DeviceLine(devices[i]) = readme_top10[k]})

\* Eleven devices were read, the summary starts with one that skip_device
\* rejects, and a kept device is cut off.
C10_Witness ==
    /\ pc = "done"
    /\ Len(devices) = TOP_N + 1
    /\ \E i \in 1..Len(devices) :
          /\ skip_device(devices[i])
          /\ readme_top10[1] = DeviceLine(devices[i])
    /\ \E i \in 1..Len(devices) :
          /\ ~skip_device(devices[i])
          /\ Occurrences(Take(readme_top10, TOP_N), DeviceLine(devices[i]))
                < Occurrences([j \in 1..Len(devices) |-> DeviceLine(devices[j])],
                              DeviceLine(devices[i]))

====
